---- MODULE Spec2Model ----
(***************************************************************************)
(* Model of the Markov-chain engine of src/src/lib.rs:                      *)
(* MarkovChainGenerator::{new, chunk_line, train, generate_chain}.          *)
(*                                                                          *)
(* A string is a sequence of characters, a word (token) is a string, a      *)
(* Wording is a sequence of words, and the graph `states` is a function     *)
(* from Wording (the keys of the HashMap) to a State, itself a function     *)
(* from Wording to the occurrence count of the Transition.                  *)
(***************************************************************************)
EXTENDS Integers, Sequences, FiniteSets, TLC

\* ---------------------------------------------------------------- bounds

\* Longest line handed to train.
MaxLineLen == 2
\* Largest wording_size of LearningParameters.
MaxWordingSize == 2
\* train is not called once the graph would hold more transitions than this.
MaxTransitions == 2
\* Largest Some(k) of ChainParameters::max_state_traversal.
MaxTraversal == 2
\* A walk with max_state_traversal = None is followed for this many hops.
MaxHops == 3
\* Longest line and largest wording_size handed to chunk_line on its own.
MaxChunkLineLen == 5
MaxChunkSize == 3

\* ------------------------------------------------------------ input sets

Alphabet == {" ", "a"}

Lines == UNION {[1..n -> Alphabet] : n \in 0..MaxLineLen}

WordingSizes == 0..MaxWordingSize

\* Option<usize>: None is the empty set, Some(k) the singleton {k}.
None == {}

Some(k) == {k}

Unwrap(opt) == CHOOSE k \in opt : TRUE

TraversalBounds == {None} \cup {Some(k) : k \in 0..MaxTraversal}

\* ------------------------------------------------------------- data model

\* State::default(): no outgoing transition.
DefaultState == [w \in {} |-> 0]

\* Transition::default().count
DefaultCount == 0

\* MarkovChainGenerator::new(): no key.
NewGenerator == [w \in {} |-> DefaultState]

\* impl Display for Wording: the words joined by single spaces.
RECURSIVE to_string(_)
to_string(wording) ==
  IF wording = <<>> THEN <<>>
  ELSE IF Len(wording) = 1 THEN wording[1]
  ELSE to_string(SubSeq(wording, 1, Len(wording) - 1))
         \o <<" ">> \o wording[Len(wording)]

\* ------------------------------------------------------------- chunk_line

\* str::split(' '): cut at every single space; n spaces give n + 1 words,
\* empty words included.
RECURSIVE split(_)
split(s) ==
  IF \E p \in 1..Len(s) : s[p] = " "
  THEN LET p == CHOOSE q \in 1..Len(s) :
                  s[q] = " " /\ \A r \in 1..(q - 1) : s[r] # " "
       IN <<SubSeq(s, 1, p - 1)>> \o split(SubSeq(s, p + 1, Len(s)))
  ELSE <<s>>

\* Itertools::chunks(size) asserts size != 0.
ChunksPanics(size) == size = 0

\* Mutant of chunks: a last group of fewer than size words is dropped
\* (chunks_exact).
RECURSIVE chunksExact(_, _)
chunksExact(words, size) ==
  IF Len(words) < size THEN <<>>
  ELSE <<SubSeq(words, 1, size)>>
         \o chunksExact(SubSeq(words, size + 1, Len(words)), size)

\* Itertools::chunks(size), each chunk collected into a Wording.
RECURSIVE chunks(_, _)
chunks(words, size) ==
  IF words = <<>> THEN <<>>
  ELSE IF Len(words) <= size THEN <<words>>
  ELSE <<SubSeq(words, 1, size)>>
         \o chunks(SubSeq(words, size + 1, Len(words)), size)

chunk_line(wsize, l) == chunks(split(l), wsize)

\* ------------------------------------------------------------------ train

\* The keys of the graph.
Keys(g) == DOMAIN g

\* The successors recorded for a wording (none when it is not a key).
Nexts(g, w) == IF w \in DOMAIN g THEN DOMAIN g[w] ELSE {}

\* The count of the transition w1 -> w2 (0 when there is none).
Count(g, w1, w2) ==
  IF w1 \in DOMAIN g /\ w2 \in DOMAIN g[w1] THEN g[w1][w2] ELSE 0

\* Mutant of RecordTransition: the count is set, not incremented
\* (nexts.insert(wording2, Transition { count: 1 })).
RecordTransitionSetsCount(g, wording1, wording2) ==
  LET g1 == IF wording1 \in DOMAIN g THEN g
            ELSE g @@ (wording1 :> [w \in {} |-> 0])
      nexts == g1[wording1]
      nexts1 == IF wording2 \in DOMAIN nexts THEN nexts
                ELSE nexts @@ (wording2 :> 0)
  IN [g1 EXCEPT ![wording1] = [nexts1 EXCEPT ![wording2] = 1]]

\* Mutant of RecordTransition: the successor gets an entry of its own in the
\* graph too (self.states.entry(wording2).or_insert(State::default())).
RecordTransitionKeysSuccessor(g, wording1, wording2) ==
  LET g1 == IF wording1 \in DOMAIN g THEN g
            ELSE g @@ (wording1 :> [w \in {} |-> 0])
      nexts == g1[wording1]
      nexts1 == IF wording2 \in DOMAIN nexts THEN nexts
                ELSE nexts @@ (wording2 :> 0)
      g2 == [g1 EXCEPT ![wording1] = [nexts1 EXCEPT ![wording2] = @ + 1]]
  IN IF wording2 \in DOMAIN g2 THEN g2
     ELSE g2 @@ (wording2 :> [w \in {} |-> 0])

\* Mutant of RecordTransition: the State of the predecessor is replaced
\* (self.states.insert(wording1, State::default())) instead of looked up.
RecordTransitionFreshState(g, wording1, wording2) ==
  LET fresh == (wording2 :> 1)
  IN IF wording1 \in DOMAIN g THEN [g EXCEPT ![wording1] = fresh]
     ELSE g @@ (wording1 :> fresh)

\* Mutant of RecordTransition: the count of the transition is created but
\* not incremented (or_default() without += 1).
RecordTransitionNoIncrement(g, wording1, wording2) ==
  LET g1 == IF wording1 \in DOMAIN g THEN g
            ELSE g @@ (wording1 :> [w \in {} |-> 0])
      nexts == g1[wording1]
      nexts1 == IF wording2 \in DOMAIN nexts THEN nexts
                ELSE nexts @@ (wording2 :> 0)
  IN [g1 EXCEPT ![wording1] = nexts1]

\* Mutant of RecordTransition: a State that exists already takes no new
\* successor, only the counts of those it has are raised.
RecordTransitionFirstSuccessorOnly(g, wording1, wording2) ==
  IF wording1 \notin DOMAIN g THEN g @@ (wording1 :> (wording2 :> 1))
  ELSE IF wording2 \in DOMAIN g[wording1]
  THEN [g EXCEPT ![wording1] = [@ EXCEPT ![wording2] = @ + 1]]
  ELSE g

\* The body of train's loop:
\*   self.states.entry(wording1).or_insert(State::default())
\*       .nexts.entry(wording2).or_default().count += 1
RecordTransition(g, wording1, wording2) ==
  LET g1 == IF wording1 \in DOMAIN g THEN g
            ELSE g @@ (wording1 :> DefaultState)
      nexts == g1[wording1]
      nexts1 == IF wording2 \in DOMAIN nexts THEN nexts
                ELSE nexts @@ (wording2 :> DefaultCount)
  IN [g1 EXCEPT ![wording1] = [nexts1 EXCEPT ![wording2] = @ + 1]]

\* Mutant of TrainWindows: every wording of the line gets an entry in the
\* graph, the last one too.
RECURSIVE TrainWindowsKeysAll(_, _, _)
TrainWindowsKeysAll(g, cs, p) ==
  IF p > Len(cs) THEN g
  ELSE IF p = Len(cs)
  THEN IF cs[p] \in DOMAIN g THEN g ELSE g @@ (cs[p] :> [w \in {} |-> 0])
  ELSE LET g1 == IF cs[p] \in DOMAIN g THEN g
                 ELSE g @@ (cs[p] :> [w \in {} |-> 0])
           nexts == g1[cs[p]]
           nexts1 == IF cs[p + 1] \in DOMAIN nexts THEN nexts
                     ELSE nexts @@ (cs[p + 1] :> 0)
       IN TrainWindowsKeysAll(
            [g1 EXCEPT ![cs[p]] = [nexts1 EXCEPT ![cs[p + 1]] = @ + 1]],
            cs, p + 1)

\* Mutant of TrainWindows: the wordings are taken two by two (tuples()), not
\* by overlapping windows.
RECURSIVE TrainWindowsTuples(_, _, _)
TrainWindowsTuples(g, cs, p) ==
  IF p >= Len(cs) THEN g
  ELSE LET g1 == IF cs[p] \in DOMAIN g THEN g
                 ELSE g @@ (cs[p] :> [w \in {} |-> 0])
           nexts == g1[cs[p]]
           nexts1 == IF cs[p + 1] \in DOMAIN nexts THEN nexts
                     ELSE nexts @@ (cs[p + 1] :> 0)
       IN TrainWindowsTuples(
            [g1 EXCEPT ![cs[p]] = [nexts1 EXCEPT ![cs[p + 1]] = @ + 1]],
            cs, p + 2)

\* for (wording1, wording2) in chunks.into_iter().tuple_windows(), from the
\* p-th window on.
RECURSIVE TrainWindows(_, _, _)
TrainWindows(g, cs, p) ==
  IF p >= Len(cs) THEN g
  ELSE TrainWindows(RecordTransition(g, cs[p], cs[p + 1]), cs, p + 1)

\* The graph after train(learn_param, line) returns.
TrainGraph(g, wsize, l) == TrainWindows(g, chunk_line(wsize, l), 1)

\* The wordings of a chunking that have a right neighbour.
Predecessors(cs) == {cs[p] : p \in 1..(Len(cs) - 1)}

\* The number of transitions of the graph, occurrences counted.
RECURSIVE SumCounts(_, _)
SumCounts(f, S) ==
  IF S = {} THEN 0
  ELSE LET w == CHOOSE x \in S : TRUE IN f[w] + SumCounts(f, S \ {w})

RECURSIVE SumStates(_, _)
SumStates(g, S) ==
  IF S = {} THEN 0
  ELSE LET w == CHOOSE x \in S : TRUE
       IN SumCounts(g[w], DOMAIN g[w]) + SumStates(g, S \ {w})

TotalTransitions(g) == SumStates(g, DOMAIN g)

\* ------------------------------------------------------------------ state

VARIABLES
  states,               \* MarkovChainGenerator::states
  followed,             \* history: the wordings train has seen with a successor
  op,                   \* the last call: "new", "train" or "generate_chain"
  line,                 \* train: its line
  wording_size,         \* train: learn_param.wording_size
  max_state_traversal,  \* generate_chain: chain_param.max_state_traversal
  key,                  \* generate_chain: the current wording
  output,               \* generate_chain: the output string
  path,                 \* history: the wordings generate_chain wrote to output
  hops,                 \* generate_chain: iterations of the for loop begun
  result,               \* how the last call ended, or "running"
  log,                  \* history: the lines WeechatLogTrainer::new was given
  lines,                \* WeechatLogTrainer::lines
  author,               \* WeechatLogTrainer::author
  learning_size,        \* CLIOpt::learning_size
  output_strings,       \* CLIOpt::output_strings
  output_size,          \* CLIOpt::output_size
  pc,                   \* main: where it stands, "lib" when there is no main
  attempt,              \* main: iterations of its for loop completed
  printed               \* main: the strings written by println!

\* The state of the trainer and of the entry point.
cliVars == <<log, lines, author, learning_size, output_strings, output_size,
             pc, attempt, printed>>

vars == <<states, followed, op, line, wording_size, max_state_traversal,
          key, output, path, hops, result, cliVars>>

\* Results of a call.
Running == [tag |-> "running", count |-> 0]

Returned == [tag |-> "returned", count |-> 0]

Ok == [tag |-> "Ok", count |-> 0]

Panicked == [tag |-> "panic", count |-> 0]

\* Err(ChainError::TooFewInitialStates(n))
TooFewInitialStates(n) == [tag |-> "TooFewInitialStates", count |-> n]

NoWording == <<>>

\* The library is used on its own: no trainer, no entry point.
NoCli ==
  /\ log = <<>>
  /\ lines = <<>>
  /\ author = <<>>
  /\ learning_size = 0
  /\ output_strings = 0
  /\ output_size = None
  /\ pc = "lib"
  /\ attempt = 0
  /\ printed = <<>>

Init ==
  /\ states = NewGenerator
  /\ followed = {}
  /\ op = "new"
  /\ line = <<>>
  /\ wording_size = 0
  /\ max_state_traversal = None
  /\ key = NoWording
  /\ output = <<>>
  /\ path = <<>>
  /\ hops = 0
  /\ result = Returned
  /\ NoCli

\* What a train call leaves of the previous generate_chain call: nothing.
GenerateIdle ==
  /\ max_state_traversal' = None
  /\ key' = NoWording
  /\ output' = <<>>
  /\ path' = <<>>
  /\ hops' = 0

\* What a generate_chain call leaves of the previous train call: nothing.
TrainIdle ==
  /\ line' = <<>>
  /\ wording_size' = 0

\* Mutant of Train: a wording_size of 0 is taken for two words per wording.
TrainZeroAsTwo ==
  \E l \in Lines, wsize \in WordingSizes :
    /\ result # Running
    /\ UNCHANGED cliVars
    /\ op' = "train"
    /\ line' = l
    /\ wording_size' = wsize
    /\ GenerateIdle
    /\ LET size == IF wsize = 0 THEN 2 ELSE wsize
           trained == TrainGraph(states, size, l)
       IN /\ TotalTransitions(trained) <= MaxTransitions
          /\ states' = trained
          /\ followed' = followed \cup Predecessors(chunk_line(size, l))
          /\ result' = Returned

\* train(&mut self, learn_param, line); no call is in progress (&mut self).
Train ==
  \E l \in Lines, wsize \in WordingSizes :
    /\ result # Running
    /\ UNCHANGED cliVars
    /\ op' = "train"
    /\ line' = l
    /\ wording_size' = wsize
    /\ GenerateIdle
    /\ IF ChunksPanics(wsize)
       THEN /\ result' = Panicked
            /\ UNCHANGED <<states, followed>>
       ELSE LET trained == TrainGraph(states, wsize, l)
            IN /\ TotalTransitions(trained) <= MaxTransitions
               /\ states' = trained
               /\ followed' = followed \cup Predecessors(chunk_line(wsize, l))
               /\ result' = Returned

\* --------------------------------------------------------- generate_chain

\* Rng::gen_range(low, high) asserts low < high ...
GenRangePanics(low, high) == low >= high

\* ... and draws from low..high, high excluded.
gen_range(low, high) == low..(high - 1)

\* The orders in which a HashMap may iterate over the entries with keys S.
IterOrders(S) ==
  {o \in [1..Cardinality(S) -> S] : \A w \in S : \E p \in DOMAIN o : o[p] = w}

\* Insertion of w into a sequence sorted by count, after its equals (the
\* sort is stable).
RECURSIVE InsertByCount(_, _, _)
InsertByCount(sorted, w, nexts) ==
  IF sorted = <<>> THEN <<w>>
  ELSE IF nexts[sorted[Len(sorted)]] <= nexts[w] THEN Append(sorted, w)
  ELSE Append(InsertByCount(SubSeq(sorted, 1, Len(sorted) - 1), w, nexts),
              sorted[Len(sorted)])

\* states.sort_by(|(_, a), (_, b)| a.count.cmp(&b.count))
RECURSIVE SortByCount(_, _)
SortByCount(order, nexts) ==
  IF order = <<>> THEN <<>>
  ELSE InsertByCount(SortByCount(SubSeq(order, 1, Len(order) - 1), nexts),
                     order[Len(order)], nexts)

\* Mutant of InRange: the range 0..=k.
InRangeInclusive(h, mst) == IF mst = None THEN TRUE ELSE h <= Unwrap(mst)

\* The range of the for loop, 0..max_state_traversal.unwrap_or(usize::MAX),
\* still holds the h-th iteration; usize::MAX iterations are never exhausted.
InRange(h, mst) == IF mst = None THEN TRUE ELSE h < Unwrap(mst)

\* generate_chain(&self, chain_param) up to the for loop: draw the initial
\* state among the keys.
GenerateChainFrom(mst) ==
  /\ result # Running
  /\ op' = "generate_chain"
  /\ TrainIdle
  /\ max_state_traversal' = mst
  /\ hops' = 0
  /\ UNCHANGED <<states, followed>>
  /\ IF GenRangePanics(0, Cardinality(Keys(states)))
     THEN /\ result' = Panicked
          /\ key' = NoWording
          /\ output' = <<>>
          /\ path' = <<>>
     ELSE \E order \in IterOrders(Keys(states)) :
          \E ri \in gen_range(0, Cardinality(Keys(states))) :
            IF ri < Len(order)
            THEN /\ key' = order[ri + 1]
                 /\ output' = to_string(order[ri + 1])
                 /\ path' = <<order[ri + 1]>>
                 /\ result' = Running
            ELSE /\ result' = TooFewInitialStates(Cardinality(Keys(states)))
                 /\ key' = NoWording
                 /\ output' = <<>>
                 /\ path' = <<>>

\* A call of generate_chain by a user of the library, with any chain_param.
GenerateChain ==
  \E mst \in TraversalBounds : GenerateChainFrom(mst) /\ UNCHANGED cliVars

\* Mutant of Hop: the next wording is drawn among the keys of the graph, not
\* among the successors of the current wording.
HopToAnyKey ==
  /\ result = Running
  /\ InRange(hops, max_state_traversal)
  /\ key \in Keys(states)
  /\ IF max_state_traversal = None THEN hops < MaxHops ELSE TRUE
  /\ hops' = hops + 1
  /\ UNCHANGED <<cliVars, states, followed, op, line, wording_size,
                 max_state_traversal>>
  /\ \E order \in IterOrders(Keys(states)) :
     \E ri \in gen_range(0, Len(order)) :
       /\ key' = order[ri + 1]
       /\ output' = output \o <<" ">> \o to_string(order[ri + 1])
       /\ path' = Append(path, order[ri + 1])
       /\ result' = Running

\* Mutant of Hop: the successors sorted, the one with the highest count is
\* taken (the last of the sorted vector), not the one at the drawn index.
HopToMostFrequent ==
  /\ result = Running
  /\ InRange(hops, max_state_traversal)
  /\ key \in Keys(states)
  /\ IF max_state_traversal = None THEN hops < MaxHops ELSE TRUE
  /\ hops' = hops + 1
  /\ UNCHANGED <<cliVars, states, followed, op, line, wording_size,
                 max_state_traversal>>
  /\ \E order \in IterOrders(DOMAIN states[key]) :
       LET sorted == SortByCount(order, states[key])
       IN /\ Len(sorted) >= 1
          /\ key' = sorted[Len(sorted)]
          /\ output' = output \o <<" ">> \o to_string(sorted[Len(sorted)])
          /\ path' = Append(path, sorted[Len(sorted)])
          /\ result' = Running

\* One iteration of the for loop on a wording that is a key: jump to one of
\* its successors and write it to the output.
Hop ==
  /\ result = Running
  /\ InRange(hops, max_state_traversal)
  /\ key \in Keys(states)
  /\ IF max_state_traversal = None THEN hops < MaxHops ELSE TRUE
  /\ hops' = hops + 1
  /\ UNCHANGED <<cliVars, states, followed, op, line, wording_size,
                 max_state_traversal>>
  /\ IF GenRangePanics(0, Cardinality(DOMAIN states[key]))
     THEN /\ result' = Panicked
          /\ UNCHANGED <<key, output, path>>
     ELSE \E order \in IterOrders(DOMAIN states[key]) :
          \E ri \in gen_range(0, Len(order)) :
            LET sorted == SortByCount(order, states[key])
            IN /\ key' = sorted[ri + 1]
               /\ output' = output \o <<" ">> \o to_string(sorted[ri + 1])
               /\ path' = Append(path, sorted[ri + 1])
               /\ result' = Running

\* Mutant of HopUnrecorded: the successor with the highest count is taken.
HopUnrecordedToMostFrequent ==
  /\ result = Running
  /\ max_state_traversal = None
  /\ hops >= MaxHops
  /\ key \in Keys(states)
  /\ UNCHANGED <<cliVars, states, followed, op, line, wording_size,
                 max_state_traversal, output, path, hops>>
  /\ \E order \in IterOrders(DOMAIN states[key]) :
       LET sorted == SortByCount(order, states[key])
       IN /\ Len(sorted) >= 1
          /\ key' = sorted[Len(sorted)]
          /\ result' = Running

\* The same iteration once an unbounded walk has begun MaxHops iterations:
\* the walk is followed on, output, path and hops are no longer recorded.
HopUnrecorded ==
  /\ result = Running
  /\ max_state_traversal = None
  /\ hops >= MaxHops
  /\ key \in Keys(states)
  /\ UNCHANGED <<cliVars, states, followed, op, line, wording_size,
                 max_state_traversal, output, path, hops>>
  /\ IF GenRangePanics(0, Cardinality(DOMAIN states[key]))
     THEN /\ result' = Panicked
          /\ UNCHANGED key
     ELSE \E order \in IterOrders(DOMAIN states[key]) :
          \E ri \in gen_range(0, Len(order)) :
            LET sorted == SortByCount(order, states[key])
            IN /\ key' = sorted[ri + 1]
               /\ result' = Running

\* Mutant of DeadEnd: continue instead of break.
DeadEndContinue ==
  /\ result = Running
  /\ InRange(hops, max_state_traversal)
  /\ key \notin Keys(states)
  /\ IF max_state_traversal = None THEN hops < MaxHops ELSE TRUE
  /\ hops' = hops + 1
  /\ UNCHANGED <<cliVars, states, followed, op, line, wording_size,
                 max_state_traversal, key, output, path, result>>

\* Mutant of DeadEnd: the dead end is reported as an error.
DeadEndIsAnError ==
  /\ result = Running
  /\ InRange(hops, max_state_traversal)
  /\ key \notin Keys(states)
  /\ result' = TooFewInitialStates(0)
  /\ UNCHANGED <<cliVars, states, followed, op, line, wording_size,
                 max_state_traversal, key, output, path, hops>>

\* One iteration of the for loop on a wording that is not a key: break, and
\* return Ok(output).
DeadEnd ==
  /\ result = Running
  /\ InRange(hops, max_state_traversal)
  /\ key \notin Keys(states)
  /\ result' = Ok
  /\ UNCHANGED <<cliVars, states, followed, op, line, wording_size,
                 max_state_traversal, key, output, path, hops>>

\* The range of the for loop is exhausted: return Ok(output).
LoopEnd ==
  /\ result = Running
  /\ ~InRange(hops, max_state_traversal)
  /\ result' = Ok
  /\ UNCHANGED <<cliVars, states, followed, op, line, wording_size,
                 max_state_traversal, key, output, path, hops>>

Next == Train \/ GenerateChain \/ Hop \/ DeadEnd \/ LoopEnd

Spec == Init /\ [][Next]_vars

\* generate_chain is synchronous, single-threaded code: once called, its loop
\* runs on until it returns.
FairSpec ==
  Spec /\ WF_vars(Hop) /\ WF_vars(DeadEnd) /\ WF_vars(LoopEnd)

\* ------------------------------------------------ vocabulary of the claims

\* The last call was generate_chain and it got past the initial draw.
Walking == op = "generate_chain" /\ result \in {Running, Ok}

\* The text of a walk: its wordings, separated by single spaces.
RECURSIVE Render(_)
Render(p) ==
  IF p = <<>> THEN <<>>
  ELSE IF Len(p) = 1 THEN to_string(p[1])
  ELSE Render(SubSeq(p, 1, Len(p) - 1)) \o <<" ">> \o to_string(p[Len(p)])

\* The wordings a walk from the wordings of S can stand on.
RECURSIVE ReachFrom(_, _)
ReachFrom(g, S) ==
  LET T == S \cup UNION {Nexts(g, w) : w \in S}
  IN IF T = S THEN S ELSE ReachFrom(g, T)

\* A walk from w can come to a wording that is not a key.
DeadEndReachable(g, w) == \E v \in ReachFrom(g, {w}) : v \notin Keys(g)

\* ------------------------------------------------------------------ C1

\* C1: generate_chain on a graph with zero keys returns
\* Err(TooFewInitialStates(0)), whatever max_state_traversal is; it neither
\* panics nor returns a string.
C1_EmptyGraphIsAnError ==
  (op = "generate_chain" /\ Keys(states) = {})
    => result = TooFewInitialStates(0)

\* ------------------------------------------------------------------ C2

\* C2: generate_chain always terminates, max_state_traversal = None included:
\* whenever a walk is under way, a stop lies ahead of it, the configured
\* traversal bound or a dead end it can come to.
C2_EveryWalkHasAStopAhead ==
  (op = "generate_chain" /\ result = Running)
    => (max_state_traversal # None \/ DeadEndReachable(states, key))

\* C2, amended: with max_state_traversal = Some(k) the walk never begins more
\* than k iterations, it takes no further hop from a wording that is not a
\* key, it returns only at the bound or on a dead end, and it does return.
C2_BoundedWalkTerminates ==
  /\ [](Walking /\ max_state_traversal # None
          => hops <= Unwrap(max_state_traversal))
  /\ [](op = "generate_chain" /\ result = Ok /\ max_state_traversal # None
          => (hops = Unwrap(max_state_traversal) \/ key \notin Keys(states)))
  /\ [][result = Running /\ key \notin Keys(states) => result' = Ok]_vars
  /\ (result = Running /\ max_state_traversal # None) ~> (result # Running)

\* A bounded walk that came to a dead end before the bound and returned.
C2_Witness ==
  /\ op = "generate_chain"
  /\ result = Ok
  /\ max_state_traversal # None
  /\ hops >= 1
  /\ hops < Unwrap(max_state_traversal)
  /\ key \notin Keys(states)

\* ------------------------------------------------------------------ C3

Trained == op = "train" /\ result = Returned

\* The wordings of the last trained line.
LastChunks == chunk_line(wording_size, line)

\* The wordings the graph knows, as keys or as successors.
Wordings(g) == Keys(g) \cup UNION {Nexts(g, w) : w \in Keys(g)}

\* How many times w2 follows w1 at once in the chunking cs.
Occurrences(cs, w1, w2) ==
  Cardinality({p \in 1..(Len(cs) - 1) : cs[p] = w1 /\ cs[p + 1] = w2})

\* C4: after train on a line of wordings w1..wn, n >= 2, every adjacent pair
\* (wi, wi+1) is a transition of the graph with count >= 1, and the call
\* raised the count of each transition by exactly the number of times the
\* pair occurs in the line (by 1 for each training of the pair), whether the
\* transition was there before or not.
C4_TrainCountsEachPair ==
  [][Trained' =>
       \A cs \in {LastChunks'} :
         /\ \A p \in 1..(Len(cs) - 1) :
              /\ cs[p] \in Keys(states')
              /\ cs[p + 1] \in Nexts(states', cs[p])
              /\ Count(states', cs[p], cs[p + 1]) >= 1
         /\ \A w1 \in Keys(states) \cup Keys(states') :
            \A w2 \in Nexts(states, w1) \cup Nexts(states', w1) :
              Count(states', w1, w2)
                = Count(states, w1, w2) + Occurrences(cs, w1, w2)]_vars

\* A line of two wordings or more was trained and one of its pairs had been
\* trained before.
C4_Witness ==
  /\ Trained
  /\ Len(LastChunks) >= 2
  /\ \E p \in 1..(Len(LastChunks) - 1) :
       Count(states, LastChunks[p], LastChunks[p + 1])
         > Occurrences(LastChunks, LastChunks[p], LastChunks[p + 1])

\* ------------------------------------------------------------------ C5

\* C5: the keys of the graph are exactly the wordings that some trained line
\* had immediately followed by another wording.
C5_KeysAreThePredecessors == Keys(states) = followed

\* A wording that was only ever the last of its lines: a successor, no key.
C5_Witness ==
  /\ Trained
  /\ \E w \in Wordings(states) : w \notin Keys(states)

\* ------------------------------------------------------------------ C6

\* C6: what generate_chain emits is a walk in the graph: the first wording
\* is a key, every later one a successor of the one emitted before it, and
\* the output is the text of that walk.
C6_OutputIsAWalk ==
  Walking =>
    /\ Len(path) >= 1
    /\ path[1] \in Keys(states)
    /\ \A j \in 1..(Len(path) - 1) : path[j + 1] \in Nexts(states, path[j])
    /\ output = Render(path)

\* A walk that returned after it left a wording with two successors.
C6_Witness ==
  /\ Walking
  /\ result = Ok
  /\ \E j \in 1..(Len(path) - 1) : Cardinality(Nexts(states, path[j])) >= 2

\* ------------------------------------------------------------------ C7

\* C7: on a graph with at least one key generate_chain neither fails nor
\* panics: it walks, and a walk that comes to a dead end returns Ok.
C7_NoErrorOnceTrained ==
  (op = "generate_chain" /\ Keys(states) # {}) => result \in {Running, Ok}

\* A walk that ended on a dead end before its bound.
C7_Witness ==
  /\ op = "generate_chain"
  /\ result = Ok
  /\ key \notin Keys(states)
  /\ InRange(hops, max_state_traversal)

\* ------------------------------------------------------------------ C8

\* The line is made of spaces only.
OnlyWhitespace(l) == Len(l) >= 1 /\ \A p \in 1..Len(l) : l[p] = " "

\* C8: train on a line of whitespace only, or of fewer tokens than
\* wording_size, yields at most one wording and adds no transition, for
\* every wording_size >= 1.
C8_BlankOrShortLineAddsNothing ==
  [][(Trained' /\ wording_size' >= 1
        /\ (OnlyWhitespace(line') \/ Len(split(line')) < wording_size'))
       => (Len(LastChunks') <= 1 /\ states' = states)]_vars

\* ------------------------------------------------------------------ C9

\* C9: train on a line whose chunking yields at most one wording leaves the
\* graph as it was: no key is added, no count changes.
C9_SingleWordingChangesNothing ==
  [][(Trained' /\ Len(LastChunks') <= 1) => states' = states]_vars

\* A line of one wording was trained on a graph that is not empty and does
\* not have this wording as a key.
C9_Witness ==
  /\ Trained
  /\ Len(LastChunks) = 1
  /\ Keys(states) # {}
  /\ LastChunks[1] \notin Keys(states)

\* ------------------------------------------------------------------ C10

\* C10: the graph starts empty, and no step removes a key or a successor
\* entry or lowers a count.
C10_TrainingIsMonotone ==
  /\ states = NewGenerator
  /\ [][\A w1 \in Keys(states) :
          /\ w1 \in Keys(states')
          /\ \A w2 \in Nexts(states, w1) :
               /\ w2 \in Nexts(states', w1)
               /\ Count(states', w1, w2) >= Count(states, w1, w2)]_vars

\* A key trained for the second time: it has an older successor entry and a
\* count of 2 or a second successor.
C10_Witness ==
  /\ Trained
  /\ Len(LastChunks) >= 2
  /\ \E w1 \in Keys(states) :
       /\ w1 \in Predecessors(LastChunks)
       /\ \E w2 \in Nexts(states, w1) :
            Count(states, w1, w2) > Occurrences(LastChunks, w1, w2)

\* ------------------------------------------------------------------ C11

\* The line of the round-trip scenario, "a b c a b c a b d".
ScenarioLine ==
  <<"a", " ", "b", " ", "c", " ", "a", " ", "b", " ", "c", " ",
    "a", " ", "b", " ", "d">>

\* train(learn_param, "a b c a b c a b d") on the graph
\* MarkovChainGenerator::new() made.
ScenarioTrain ==
  \E wsize \in 1..MaxWordingSize :
    /\ result # Running
    /\ UNCHANGED cliVars
    /\ states = NewGenerator
    /\ op' = "train"
    /\ line' = ScenarioLine
    /\ wording_size' = wsize
    /\ GenerateIdle
    /\ states' = TrainGraph(states, wsize, ScenarioLine)
    /\ followed' = followed \cup Predecessors(chunk_line(wsize, ScenarioLine))
    /\ result' = Returned

ScenarioNext == ScenarioTrain \/ GenerateChain \/ Hop \/ DeadEnd \/ LoopEnd

\* The scenario: one training line, then any number of generate_chain calls.
ScenarioSpec == Init /\ [][ScenarioNext]_vars

\* The wording made of the one word of one letter c.
Letter(c) == <<<<c>>>>

\* C11: training the empty graph on "a b c a b c a b d" with wording_size 1
\* gives key a the successors {b: 3} and key b the successors {c: 2, d: 1}.
C11_ScenarioGraph ==
  (Trained /\ line = ScenarioLine /\ wording_size = 1) =>
    /\ Letter("a") \in Keys(states)
    /\ Nexts(states, Letter("a")) = {Letter("b")}
    /\ Count(states, Letter("a"), Letter("b")) = 3
    /\ Letter("b") \in Keys(states)
    /\ Nexts(states, Letter("b")) = {Letter("c"), Letter("d")}
    /\ Count(states, Letter("b"), Letter("c")) = 2
    /\ Count(states, Letter("b"), Letter("d")) = 1

\* The scenario line was trained with wording_size 1 on the empty graph.
C11_Witness ==
  /\ Trained
  /\ line = ScenarioLine
  /\ wording_size = 1
  /\ TotalTransitions(states) = 8

\* ------------------------------------------------------------------ C14

ChunkLines == UNION {[1..n -> Alphabet] : n \in 0..MaxChunkLineLen}

\* A first call of train is about to be made with any line and any
\* wording_size >= 1.
ChunkInit ==
  /\ states = NewGenerator
  /\ followed = {}
  /\ op = "new"
  /\ line \in ChunkLines
  /\ wording_size \in 1..MaxChunkSize
  /\ max_state_traversal = None
  /\ key = NoWording
  /\ output = <<>>
  /\ path = <<>>
  /\ hops = 0
  /\ result = Returned
  /\ NoCli

\* That call: the line is chunked and its windows are recorded.
ChunkTrain ==
  /\ op = "new"
  /\ op' = "train"
  /\ states' = TrainGraph(states, wording_size, line)
  /\ followed' = followed \cup Predecessors(chunk_line(wording_size, line))
  /\ result' = Returned
  /\ UNCHANGED <<cliVars, line, wording_size, max_state_traversal, key,
                 output, path, hops>>

ChunkSpec == ChunkInit /\ [][ChunkTrain]_vars

\* C14: a line of n >= 1 tokens is chunked into ceil(n / s) wordings, the
\* i-th of which holds the tokens (i - 1) * s + 1 .. min(i * s, n) in order:
\* all have s tokens but the last, which has n - s * (ceil(n / s) - 1).
C14_ChunkCount ==
  Trained =>
    \A words \in {split(line)} :
    \A cs \in {chunk_line(wording_size, line)} :
      LET n == Len(words)
          s == wording_size
          count == (n + s - 1) \div s
      IN /\ n >= 1
         /\ Len(cs) = count
         /\ \A i \in 1..count :
              /\ Len(cs[i]) = IF i < count THEN s ELSE n - s * (count - 1)
              /\ \A j \in 1..Len(cs[i]) : cs[i][j] = words[(i - 1) * s + j]

\* A line whose token count is no multiple of wording_size: three wordings,
\* the last one shorter.
C14_Witness ==
  /\ Trained
  /\ Len(LastChunks) = 3
  /\ wording_size = 2
  /\ Len(LastChunks[3]) = 1

\* ------------------------------------------------------------------ C17

\* C17: a call of train with wording_size = 0 is rejected (the assertion of
\* Itertools::chunks fails before the loop) and leaves the graph as it was.
C17_ZeroWordingSizeIsRejected ==
  [][(op' = "train" /\ wording_size' = 0) =>
       (result' = Panicked /\ states' = states)]_vars

\* train was called with wording_size = 0 on a graph that is not empty.
C17_Witness ==
  /\ op = "train"
  /\ wording_size = 0
  /\ result = Panicked
  /\ TotalTransitions(states) >= 1

\* ------------------------------------------------------------------ C18

\* C18: every State stored under a key has a successor and every stored
\* count is >= 1, so a wording of the graph has no successor exactly when
\* it is not a key, and the successor index of a hop is never drawn from an
\* empty range: generate_chain panics in its initial draw or not at all.
C18_KeysHaveSuccessors ==
  /\ \A w1 \in Keys(states) :
       /\ Nexts(states, w1) # {}
       /\ \A w2 \in Nexts(states, w1) : states[w1][w2] >= 1
  /\ \A w \in Wordings(states) :
       (w \notin Keys(states)) <=> (Nexts(states, w) = {})
  /\ (result = Running /\ key \in Keys(states)) =>
       ~GenRangePanics(0, Cardinality(DOMAIN states[key]))
  /\ (op = "generate_chain" /\ result = Panicked) => path = <<>>

\* A walk that has hopped once stands on a key and is about to draw again.
C18_Witness ==
  /\ result = Running
  /\ hops >= 1
  /\ key \in Keys(states)
  /\ InRange(hops, max_state_traversal)

\* ------------------------------------------------------------------ C19

\* C19: the graph starts with no transition, each call of train that
\* returns raises the sum of the counts by the number of adjacent pairs of
\* wordings of its own line, max(0, n - 1), and no other step changes it.
C19_TotalIsSumOfPairs ==
  /\ TotalTransitions(states) = 0
  /\ [][IF op' = "train" /\ result' = Returned
        THEN \A cs \in {chunk_line(wording_size', line')} :
               TotalTransitions(states') =
                 TotalTransitions(states)
                   + (IF Len(cs) >= 1 THEN Len(cs) - 1 ELSE 0)
        ELSE TotalTransitions(states') = TotalTransitions(states)]_vars

\* Two lines of two wordings each were trained: two transitions, none from
\* the last wording of the first line to the first wording of the second.
C19_Witness ==
  /\ Trained
  /\ Len(LastChunks) = 2
  /\ TotalTransitions(states) = 2

\* ------------------------------------------------------------------ C20

\* C20: on every graph training reaches, training two lines with the same
\* wording_size gives the same graph in either order; any reordering of a
\* sequence of lines is a sequence of such swaps.  Each reachable graph is
\* looked at once, in the state train("") leaves it in.
C20_TrainingCommutes ==
  (Trained /\ line = <<>> /\ wording_size = 1) =>
    \A wsize \in 1..MaxWordingSize :
    \A l1 \in Lines :
    \A g1 \in {TrainGraph(states, wsize, l1)} :
    \A l2 \in Lines :
      TrainGraph(g1, wsize, l2) =
        TrainGraph(TrainGraph(states, wsize, l2), wsize, l1)

\* A graph that is not empty and to which two lines each still add
\* something, the second one to a key of the first.
C20_Witness ==
  /\ Trained
  /\ line = <<>>
  /\ wording_size = 1
  /\ states # NewGenerator
  /\ \E l1, l2 \in Lines :
       /\ l1 # l2
       /\ \E w \in Predecessors(chunk_line(1, l1)) :
            w \in Predecessors(chunk_line(1, l2))
       /\ TrainGraph(TrainGraph(states, 1, l1), 1, l2)
            # TrainGraph(states, 1, l1)

\* ------------------------------------------------------- unbounded walks

\* Graphs of up to this many transitions are walked without a bound.
MaxWalkTransitions == 3

WalkWords == {"a", "b", "c"}

\* The lines "x y" of two words.
WalkLines == {<<x, " ", y>> : x, y \in WalkWords}

\* train(learn_param, line) with wording_size = 1 and a line of WalkLines.
WalkTrain ==
  \E l \in WalkLines :
    /\ result # Running
    /\ UNCHANGED cliVars
    /\ op' = "train"
    /\ line' = l
    /\ wording_size' = 1
    /\ GenerateIdle
    /\ LET trained == TrainGraph(states, 1, l)
       IN /\ TotalTransitions(trained) <= MaxWalkTransitions
          /\ states' = trained
    /\ followed' = followed \cup Predecessors(chunk_line(1, l))
    /\ result' = Returned

WalkNext ==
  WalkTrain \/ GenerateChain \/ Hop \/ HopUnrecorded \/ DeadEnd \/ LoopEnd

WalkSpec == Init /\ [][WalkNext]_vars

\* The loop of generate_chain runs on, and its draw is fair: a wording that
\* is a successor of the current one again and again is chosen in the end.
WalkFairSpec ==
  /\ WalkSpec
  /\ WF_vars(DeadEnd)
  /\ WF_vars(LoopEnd)
  /\ \A x \in WalkWords : SF_vars((Hop \/ HopUnrecorded) /\ key' = Letter(x))

\* ------------------------------------------------------------------ C15

\* C15: with max_state_traversal = None, a fair walk that starts where a
\* dead end can be reached stops at a dead end in the end; it can do so only
\* if a dead end can still be reached from wherever the walk stands
\* (path[1] is the starting wording).
C15_DeadEndStaysReachable ==
  (op = "generate_chain" /\ result = Running /\ max_state_traversal = None
     /\ DeadEndReachable(states, path[1]))
    => DeadEndReachable(states, key)

\* Every wording a walk from w can come to has a dead end ahead.
NoTrapAhead(g, w) == \A v \in ReachFrom(g, {w}) : DeadEndReachable(g, v)

\* C15, amended: with max_state_traversal = None, a fair walk standing on a
\* wording from which no walk can come to a place without a dead end ahead
\* stops at a dead end in the end.
C15_FairWalkStops ==
  (op = "generate_chain" /\ result = Running /\ max_state_traversal = None
     /\ NoTrapAhead(states, key))
    ~> (result = Ok /\ key \notin Keys(states))

\* An unbounded walk went round a cycle past MaxHops iterations, with a dead
\* end ahead all along, and stopped there.
C15_Witness ==
  /\ op = "generate_chain"
  /\ result = Ok
  /\ max_state_traversal = None
  /\ hops = MaxHops
  /\ key \notin Keys(states)
  /\ key # path[Len(path)]
  /\ \E p \in 1..(Len(path) - 1) : path[p] = path[p + 1]

\* ------------------------------------------------------------------ C16

IsDigit(c) == c \in {"0", "1", "2", "3", "4", "5", "6", "7", "8", "9"}

IsSpace(c) == c = " "

\* The first position from i on that holds no whitespace (\s+ is greedy).
RECURSIVE SkipSpaces(_, _)
SkipSpaces(l, i) ==
  IF i > Len(l) THEN i
  ELSE IF IsSpace(l[i]) THEN SkipSpaces(l, i + 1) ELSE i

\* \d{4}-\d{2}-\d{2} at position i.
DateAt(l, i) ==
  IF i + 9 > Len(l) THEN FALSE
  ELSE /\ \A d \in {0, 1, 2, 3, 5, 6, 8, 9} : IsDigit(l[i + d])
       /\ l[i + 4] = "-"
       /\ l[i + 7] = "-"

\* \d{2}:\d{2}:\d{2} at position i.
TimeAt(l, i) ==
  IF i + 7 > Len(l) THEN FALSE
  ELSE /\ \A d \in {0, 1, 3, 4, 6, 7} : IsDigit(l[i + d])
       /\ l[i + 2] = ":"
       /\ l[i + 5] = ":"

\* \d{2}:\d{2}:\d{2}\s+(.*) at position i: where group 2 begins, 0 when
\* there is no match.
TimeThenRest(l, i) ==
  IF TimeAt(l, i)
  THEN IF SkipSpaces(l, i + 8) > i + 8 THEN SkipSpaces(l, i + 8) ELSE 0
  ELSE 0

\* REGEX_LINE at position i, the optional date group tried first: where
\* group 2 begins, 0 when there is no match.
MatchAt(l, i) ==
  IF DateAt(l, i)
  THEN IF SkipSpaces(l, i + 10) > i + 10
            /\ TimeThenRest(l, SkipSpaces(l, i + 10)) # 0
       THEN TimeThenRest(l, SkipSpaces(l, i + 10))
       ELSE TimeThenRest(l, i)
  ELSE TimeThenRest(l, i)

\* REGEX_LINE.captures(line) as far as it is used: captures[2] of the
\* leftmost match (the regex is not anchored), None without a match.
captures(l) ==
  LET starts == {i \in 1..Len(l) : MatchAt(l, i) # 0}
  IN IF starts = {} THEN None
     ELSE LET first == CHOOSE i \in starts : \A j \in starts : i <= j
          IN Some(SubSeq(l, MatchAt(l, first), Len(l)))

\* str::starts_with
starts_with(str, prefix) ==
  IF Len(prefix) > Len(str) THEN FALSE
  ELSE SubSeq(str, 1, Len(prefix)) = prefix

\* str::trim
RECURSIVE trim_end(_)
trim_end(str) ==
  IF str = <<>> THEN str
  ELSE IF IsSpace(str[Len(str)]) THEN trim_end(SubSeq(str, 1, Len(str) - 1))
  ELSE str

trim(str) == trim_end(SubSeq(str, SkipSpaces(str, 1), Len(str)))

\* The closure of filter_noise's retain.
IsNoise(text) ==
  \/ starts_with(text, <<"-", "-">>)
  \/ starts_with(text, <<"<", "-", "-">>)
  \/ starts_with(text, <<"-", "-", ">">>)

Retained(l) ==
  IF captures(l) = None THEN FALSE ELSE ~IsNoise(Unwrap(captures(l)))

filter_noise(ls) == SelectSeq(ls, Retained)

\* Mutant of cleanup_line: the nickname is left in the line.
cleanup_lineKeepsNickname(l, nick) ==
  IF captures(l) = None THEN l
  ELSE LET whole == Unwrap(captures(l))
           input == IF whole # <<>> /\ whole[1] = "@" THEN Tail(whole)
                    ELSE whole
       IN IF starts_with(input, nick) THEN trim(input) ELSE <<>>

\* The body of cleanup's loop: what the line becomes.
cleanup_line(l, nick) ==
  IF captures(l) = None THEN l
  ELSE LET whole == Unwrap(captures(l))
           input == IF whole # <<>> /\ whole[1] = "@" THEN Tail(whole)
                    ELSE whole
       IN IF starts_with(input, nick)
          THEN trim(SubSeq(input, Len(nick) + 1, Len(input)))
          ELSE <<>>

NotEmpty(l) == l # <<>>

cleanup(ls, nick) ==
  SelectSeq([i \in DOMAIN ls |-> cleanup_line(ls[i], nick)], NotEmpty)

\* for line in &self.lines { markov_chain_generator.train(&learn_params, line) }
RECURSIVE TrainAll(_, _, _)
TrainAll(g, wsize, ls) ==
  IF ls = <<>> THEN g
  ELSE TrainAll(TrainGraph(g, wsize, Head(ls)), wsize, Tail(ls))

\* source_train(markov_chain_generator, learn_params), called by main or by
\* any user of the trainer; a panic of train unwinds through it.
SourceTrain ==
  /\ pc = "start"
  /\ UNCHANGED <<log, author, learning_size, output_strings, output_size,
                 attempt, printed>>
  /\ UNCHANGED <<max_state_traversal, key, output, path, hops>>
  /\ \E kept \in {cleanup(filter_noise(lines), author)} :
       /\ lines' = kept
       /\ IF kept = <<>>
          THEN /\ pc' = "loop"
               /\ UNCHANGED <<states, followed, op, line, wording_size,
                              result>>
          ELSE /\ op' = "train"
               /\ wording_size' = learning_size
               /\ IF ChunksPanics(learning_size)
                  THEN /\ pc' = "dead"
                       /\ line' = kept[1]
                       /\ result' = Panicked
                       /\ UNCHANGED <<states, followed>>
                  ELSE /\ pc' = "loop"
                       /\ line' = kept[Len(kept)]
                       /\ result' = Returned
                       /\ states' = TrainAll(states, learning_size, kept)
                       /\ followed' = followed \cup UNION
                            {Predecessors(chunk_line(learning_size, kept[i])) :
                               i \in DOMAIN kept}

\* A trainer was made by WeechatLogTrainer::new(author, content) for a fresh
\* generator; main has parsed its options.  A line of the log is described
\* by what stands before its message, stamp, and by the message, text.
Raw(entry) == entry.stamp \o entry.text

CliInit(logs, authors, sizes, counts, traversals) ==
  /\ states = NewGenerator
  /\ followed = {}
  /\ op = "new"
  /\ line = <<>>
  /\ wording_size = 0
  /\ max_state_traversal = None
  /\ key = NoWording
  /\ output = <<>>
  /\ path = <<>>
  /\ hops = 0
  /\ result = Returned
  /\ log \in logs
  /\ lines = [i \in DOMAIN log |-> Raw(log[i])]
  /\ author \in authors
  /\ learning_size \in sizes
  /\ output_strings \in counts
  /\ output_size \in traversals
  /\ pc = "start"
  /\ attempt = 0
  /\ printed = <<>>

\* ------------------------------------------------------------------ C13

\* Longest message of a log line.
MaxBodyLen == 3

TimeStamp == <<"0", "0", ":", "0", "0", ":", "0", "0", " ">>

DateStamp == <<"0", "0", "0", "0", "-", "0", "0", "-", "0", "0", " ">>

\* No timestamp, a time, a date and a time, a time after other text.
Stamps ==
  {<<>>, TimeStamp, DateStamp \o TimeStamp, <<"b", " ">> \o TimeStamp}

BodyAlphabet == {"a", "b", " ", "@", "-", "<", ">"}

\* The messages: they do not begin with whitespace (it belongs to the stamp).
Bodies ==
  {b \in UNION {[1..n -> BodyAlphabet] : n \in 0..MaxBodyLen} :
     IF b = <<>> THEN TRUE ELSE ~IsSpace(b[1])}

Entries == [stamp : Stamps, text : Bodies]

Alice == <<"a", "l", "i", "c", "e">>

\* ["10:00:00 alice hi there", "10:00:01 bob ignore me"]
AttributionLog ==
  << [stamp |-> <<"1", "0", ":", "0", "0", ":", "0", "0", " ">>,
      text |-> Alice \o <<" ", "h", "i", " ", "t", "h", "e", "r", "e">>],
     [stamp |-> <<"1", "0", ":", "0", "0", ":", "0", "1", " ">>,
      text |-> <<"b", "o", "b", " ", "i", "g", "n", "o", "r", "e", " ",
                 "m", "e">>] >>

\* Some lines to make logs of two lines with.
PairEntries ==
  [stamp : {TimeStamp},
   text : {<<"a", " ", "a">>, <<"b", " ", "a">>, <<"@", "a", " ", "b">>,
           <<"-", "-">>}]

TrainerLogs ==
  {<<>>, AttributionLog}
    \cup {<<e>> : e \in Entries}
    \cup {<<e1, e2>> : e1 \in PairEntries, e2 \in PairEntries}

Authors == {<<>>, <<"a">>, Alice}

TrainerInit ==
  CliInit(TrainerLogs, Authors, 1..MaxWordingSize, {0}, {None})

TrainerSpec == TrainerInit /\ [][SourceTrain]_vars

\* What the statement makes of a log line: kept when it has a timestamp, is
\* no noise and its text begins with the author; trained without the author.
SaidKept(entry, nick) ==
  /\ entry.stamp # <<>>
  /\ ~IsNoise(entry.text)
  /\ starts_with(entry.text, nick)

SaidContent(entry, nick) ==
  trim(SubSeq(entry.text, Len(nick) + 1, Len(entry.text)))

RECURSIVE SaidLines(_, _)
SaidLines(entries, nick) ==
  IF entries = <<>> THEN <<>>
  ELSE LET rest == SaidLines(Tail(entries), nick)
       IN IF SaidKept(Head(entries), nick)
               /\ SaidContent(Head(entries), nick) # <<>>
          THEN <<SaidContent(Head(entries), nick)>> \o rest
          ELSE rest

\* C13: once source_train has run, the lines it handed to train are, in the
\* order of the log, the texts after the timestamp that begin with the
\* author, without the author and the whitespace around, the empty ones
\* left out.
C13_KeptIffAuthorPrefix ==
  (pc = "loop") => lines = SaidLines(log, author)

\* The text with one leading '@' removed, if it has one.
Unmarked(text) ==
  IF text = <<>> THEN text
  ELSE IF text[1] = "@" THEN Tail(text) ELSE text

RECURSIVE KeptLines(_, _)
KeptLines(entries, nick) ==
  IF entries = <<>> THEN <<>>
  ELSE LET e == Head(entries)
           rest == KeptLines(Tail(entries), nick)
           text == Unmarked(e.text)
           content == trim(SubSeq(text, Len(nick) + 1, Len(text)))
       IN IF e.stamp # <<>> /\ ~IsNoise(e.text)
               /\ starts_with(text, nick) /\ content # <<>>
          THEN <<content>> \o rest
          ELSE rest

\* C13, amended: the author is looked for after one leading '@' of the text
\* has been removed, and the graph is the one train builds from these lines.
C13_KeptIffAuthorAfterMark ==
  (pc = "loop") =>
    /\ lines = KeptLines(log, author)
    /\ states = TrainAll(NewGenerator, learning_size, KeptLines(log, author))

\* The attribution scenario: "hi there" alone was trained.
C13_Witness ==
  /\ pc = "loop"
  /\ log = AttributionLog
  /\ author = Alice
  /\ lines = << <<"h", "i", " ", "t", "h", "e", "r", "e">> >>
  /\ learning_size = 1
  /\ Keys(states) = {<<<<"h", "i">>>>}
  /\ Count(states, <<<<"h", "i">>>>, <<<<"t", "h", "e", "r", "e">>>>) = 1

\* --------------------------------------------- impersonate-weechat/main.rs

\* Largest output_strings main is run with.
MaxOutputStrings == 2

\* Logs for main: empty, noise alone, one message, two messages.
MainLogs ==
  {<<>>,
   << [stamp |-> TimeStamp, text |-> <<"-", "-">>] >>,
   << [stamp |-> TimeStamp, text |-> <<"a", " ", "a", " ", "b">>] >>,
   << [stamp |-> TimeStamp, text |-> <<"a", " ", "b">>],
      [stamp |-> TimeStamp, text |-> <<"b", " ", "a">>] >>}

MainInit ==
  CliInit(MainLogs, {<<>>, <<"a">>}, WordingSizes, 0..MaxOutputStrings,
          TraversalBounds)

\* An iteration of main's for loop begins: generate_chain is called with
\* max_state_traversal: output_size.
MainAttempt ==
  /\ pc = "loop"
  /\ attempt < output_strings
  /\ GenerateChainFrom(output_size)
  /\ pc' = "call"
  /\ UNCHANGED <<log, lines, author, learning_size, output_strings,
                 output_size, attempt, printed>>

\* The call is over: if let Ok(output) prints the string, an Err is passed
\* over, and a panic ends the process.
MainAttemptEnd ==
  /\ pc = "call"
  /\ result # Running
  /\ IF result = Panicked
     THEN /\ pc' = "dead"
          /\ UNCHANGED <<attempt, printed>>
     ELSE /\ pc' = "loop"
          /\ attempt' = attempt + 1
          /\ printed' = IF result = Ok THEN Append(printed, output)
                        ELSE printed
  /\ UNCHANGED <<states, followed, op, line, wording_size,
                 max_state_traversal, key, output, path, hops, result, log,
                 lines, author, learning_size, output_strings, output_size>>

\* The range 0..output_strings is exhausted: main returns.
MainExit ==
  /\ pc = "loop"
  /\ attempt >= output_strings
  /\ pc' = "done"
  /\ UNCHANGED <<states, followed, op, line, wording_size,
                 max_state_traversal, key, output, path, hops, result, log,
                 lines, author, learning_size, output_strings, output_size,
                 attempt, printed>>

MainNext ==
  \/ SourceTrain
  \/ MainAttempt
  \/ Hop
  \/ HopUnrecorded
  \/ DeadEnd
  \/ LoopEnd
  \/ MainAttemptEnd
  \/ MainExit

MainSpec == MainInit /\ [][MainNext]_vars

\* ------------------------------------------------------------------ C12

\* C12: main never dies while it generates: once training is over, no call
\* of generate_chain ends the process, whatever the graph is, the empty one
\* included.
C12_MainSurvivesGeneration ==
  ~(pc = "dead" /\ op = "generate_chain")
====
